---------------------------- MODULE Spec2Model ----------------------------
(***************************************************************************)
(* Model of network_info: create_tsv.py (and the block segmenter of        *)
(* create_db.py).  A dump file is a sequence of lines; a line is a record  *)
(* [attr, val] standing for the text "attr: val".  Strings are tagged      *)
(* values so that str(), range_to_cidr and the csv writer are conversions   *)
(* and not identities:                                                     *)
(*   [k |-> "text",  w |-> <<words>>]      free text ('' is no words)      *)
(*   [k |-> "range", v, s, e]              the text "s - e" (family v)     *)
(*   [k |-> "cidr",  v, addr, len]         the text "addr/len"             *)
(*   [k |-> "net",   v, addr, len]         a netaddr IPNetwork object      *)
(*   [k |-> "list",  items]                a Python list                   *)
(*   [k |-> "None"]                        Python None                     *)
(* Addresses are AddrBits wide.                                            *)
(***************************************************************************)
EXTENDS Integers, Sequences, FiniteSets, TLC

\* ------------------------------------------------------------------ bounds
AddrBits == 3
MaxLines == 4
MaxGroups == 3
NumFiles == 2

\* ------------------------------------------------------------ value model
None == [k |-> "None"]

EmptyStr == [k |-> "text", w |-> <<>>]

Txt(s) == [k |-> "text", w |-> <<s>>]

Range(v, s, e) == [k |-> "range", v |-> v, s |-> s, e |-> e]

Cidr(v, a, l) == [k |-> "cidr", v |-> v, addr |-> a, len |-> l]

Net(v, a, l) == [k |-> "net", v |-> v, addr |-> a, len |-> l]

List(items) == [k |-> "list", items |-> items]

Line(a, val) == [attr |-> a, val |-> val]

RECURSIVE Pow2(_)
Pow2(n) == IF n = 0 THEN 1 ELSE 2 * Pow2(n - 1)

MaxAddr == Pow2(AddrBits) - 1

\* --------------------------------------------------------------- FILELIST
FILELIST ==
  << "arin_db.txt", "afrinic.db.gz", "apnic.db.inet6num.gz",
     "apnic.db.inetnum.gz", "apnic.db.route-set.gz", "apnic.db.route.gz",
     "apnic.db.route6.gz", "lacnic.db.gz", "ripe.db.inetnum.gz",
     "ripe.db.inet6num.gz", "ripe.db.route-set.gz", "ripe.db.route.gz",
     "ripe.db.route6.gz", "arin.db.gz", "arin-nonauth.db.gz", "level3.db.gz",
     "nttcom.db.gz", "radb.db.gz", "tc.db.gz" >>

\* The filename prefix test of get_source, tabulated over FILELIST.
get_source(filename) ==
  IF filename = "afrinic.db.gz" THEN Txt("afrinic")
  ELSE IF filename \in {"apnic.db.inet6num.gz", "apnic.db.inetnum.gz",
                        "apnic.db.route-set.gz", "apnic.db.route.gz",
                        "apnic.db.route6.gz"} THEN Txt("apnic")
  ELSE IF filename \in {"arin_db.txt", "arin.db.gz", "arin-nonauth.db.gz"}
       THEN Txt("arin")
  ELSE IF filename = "lacnic.db.gz" THEN Txt("lacnic")
  ELSE IF filename \in {"ripe.db.inetnum.gz", "ripe.db.inet6num.gz",
                        "ripe.db.route-set.gz", "ripe.db.route.gz",
                        "ripe.db.route6.gz"} THEN Txt("ripe")
  ELSE IF filename = "level3.db.gz" THEN Txt("level3")
  ELSE IF filename = "nttcom.db.gz" THEN Txt("nttcom")
  ELSE IF filename = "radb.db.gz" THEN Txt("radb")
  ELSE IF filename = "tc.db.gz" THEN Txt("tc")
  ELSE None

\* ----------------------------------------------------------- read_blocks
\* line.strip() == b''
is_blank(line) == line.attr = ""

\* create_tsv.py skips '%' and '#' lines; create_db.py also 'remarks:'.
is_comment(prog, line) ==
  \/ line.attr \in {"%", "#"}
  \/ prog = "create_db" /\ line.attr = "remarks"

is_rpsl_block_start(single_block) ==
  /\ single_block # <<>>
  /\ single_block[1].attr \in {"inetnum", "inet6num", "route", "route6", "route-set"}

is_arin_block_start(single_block) ==
  /\ single_block # <<>>
  /\ single_block[1].attr \in {"NetHandle", "V6NetHandle", "OrgID"}

\* The start test of the 'block end' branch, for either program.
is_block_start(prog, single_block) ==
  IF prog = "create_tsv"
  THEN is_rpsl_block_start(single_block) \/ is_arin_block_start(single_block)
  ELSE /\ single_block # <<>>
       /\ single_block[1].attr \in {"inetnum", "inet6num"}

\* Mutation: a discarded group is not cleared (the 'else' branch forgets
\* 'single_block = b""').
read_blocks_step_keeps_discarded(prog, cust_source, st, line) ==
  IF is_comment(prog, line) THEN st
  ELSE IF is_blank(line)
  THEN IF is_block_start(prog, st.single_block)
       THEN [single_block |-> <<>>,
             blocks |-> Append(st.blocks,
                               Append(st.single_block, Line("cust_source", cust_source)))]
       ELSE st
  ELSE [single_block |-> Append(st.single_block, line), blocks |-> st.blocks]

\* One iteration of 'for line in f' on the state st = [single_block, blocks].
read_blocks_step(prog, cust_source, st, line) ==
  IF is_comment(prog, line) THEN st
  ELSE IF is_blank(line)
  THEN IF is_block_start(prog, st.single_block)
       THEN [single_block |-> <<>>,
             blocks |-> Append(st.blocks,
                               Append(st.single_block, Line("cust_source", cust_source)))]
       ELSE [single_block |-> <<>>, blocks |-> st.blocks]
  ELSE [single_block |-> Append(st.single_block, line), blocks |-> st.blocks]

RECURSIVE read_blocks_loop(_, _, _, _)
read_blocks_loop(prog, cust_source, st, lines) ==
  IF lines = <<>> THEN st
  ELSE read_blocks_loop(prog, cust_source,
                        read_blocks_step(prog, cust_source, st, Head(lines)),
                        Tail(lines))

\* read_blocks(filename) on a file whose lines are 'lines': the loop runs over
\* every line and the function returns blocks (single_block is dropped).
read_blocks(prog, filename, lines) ==
  read_blocks_loop(prog, get_source(filename),
                   [single_block |-> <<>>, blocks |-> <<>>], lines).blocks


\* ------------------------------------------------------ attribute extraction
RECURSIVE JoinWords(_)
JoinWords(vals) ==
  IF vals = <<>> THEN <<>> ELSE Head(vals).w \o JoinWords(Tail(vals))

\* ' '.join(list of str)
join(items) == [k |-> "text", w |-> JoinWords(items)]

LinesNamed(b, name) == SelectSeq(b, LAMBDA l : l.attr = name)

\* re.findall('^name:\s?(.+)$'): the lines 'name: value' with a non-empty value;
\* their values joined with one space and whitespace-collapsed; None if none.
parse_property(b, name) ==
  LET match == SelectSeq(b, LAMBDA l : l.attr = name /\ l.val.k = "text" /\ l.val.w # <<>>)
      RECURSIVE vals(_)
      vals(ls) == IF ls = <<>> THEN <<>> ELSE <<Head(ls).val>> \o vals(Tail(ls))
  IN IF match # <<>> THEN join(vals(match)) ELSE None

\* ------------------------------------------------------- range normalisation
\* Number of addresses of the largest CIDR that starts at s and ends by e.
RECURSIVE BlockBits(_, _, _)
BlockBits(s, e, j) ==
  IF j < AddrBits /\ s % Pow2(j + 1) = 0 /\ s + Pow2(j + 1) - 1 <= e
  THEN BlockBits(s, e, j + 1) ELSE j

\* netaddr.iprange_to_cidrs(start, end): the minimal list of CIDRs covering
\* exactly start..end, in ascending order.  The library is not part of the
\* repository; the inputs of the model keep start <= end.
RECURSIVE iprange_to_cidrs(_, _, _)
iprange_to_cidrs(v, s, e) ==
  IF s > e THEN <<>>
  ELSE LET j == BlockBits(s, e, 0)
       IN <<Net(v, s, AddrBits - j)>> \o iprange_to_cidrs(v, s + Pow2(j), e)

\* str(x) of a value the code stringifies
py_str(x) ==
  IF x.k = "net" THEN Cidr(x.v, x.addr, x.len)
  ELSE IF x = None THEN Txt("None")
  ELSE x

\* re.findall on anything but a str raises TypeError
range_to_cidr_raises(inetnum) == inetnum.k \notin {"text", "range", "cidr"}

\* The regex finds an IPv4 'start - end' pair; only [0] of the CIDR list is kept.
range_to_cidr(inetnum) ==
  IF inetnum.k = "range" /\ inetnum.v = 4
  THEN iprange_to_cidrs(4, inetnum.s, inetnum.e)[1]
  ELSE inetnum

parse_arin_inetnum(b) ==
  LET m4 == SelectSeq(b, LAMBDA l : l.attr = "NetRange" /\ l.val.k = "range" /\ l.val.v = 4)
      m6 == SelectSeq(b, LAMBDA l : l.attr = "NetRange" /\ l.val.k = "range" /\ l.val.v = 6)
  IN IF m4 # <<>> THEN List(iprange_to_cidrs(4, m4[1].val.s, m4[1].val.e))
     ELSE IF m6 # <<>> THEN List(iprange_to_cidrs(6, m6[1].val.s, m6[1].val.e))
     ELSE None

\* ------------------------------------------------- external RPSL parser
RpslListAttrs == {"members", "descr", "country", "mnt-by", "last-modified", "changed", "created"}

RpslAttrs == {"inetnum", "inet6num", "route", "route6", "route-set", "netname", "source"}
               \cup RpslListAttrs

\* rpsl_object_from_text(b) raises on a block it cannot parse: a block with a
\* line that is not 'name: value' (attr "?").
rpsl_raises(b) == \E i \in 1..Len(b) : b[i].attr = "?"

RECURSIVE ItemsOf(_)
ItemsOf(ls) ==
  IF ls = <<>> THEN <<>>
  ELSE (IF Head(ls).val.k = "list" THEN Head(ls).val.items ELSE <<Head(ls).val>>)
       \o ItemsOf(Tail(ls))

\* rpsl_object.parsed_data: attribute name -> str, or list for the list attributes
parsed_data(b) ==
  [a \in {x \in RpslAttrs : LinesNamed(b, x) # <<>>} |->
     IF a \in RpslListAttrs THEN List(ItemsOf(LinesNamed(b, a)))
     ELSE LinesNamed(b, a)[1].val]

\* ------------------------------------------------------------------ rows
Row(c, netname, description, country, maintained_by, created, last_modified, source) ==
  [cidr |-> c, netname |-> netname, description |-> description, country |-> country,
   maintained_by |-> maintained_by, created |-> created,
   last_modified |-> last_modified, source |-> source]

\* csv.writer.writerow: None is written as '', everything else as str(field)
csv_field(x) == IF x = None THEN EmptyStr ELSE py_str(x)

writerow(row) == [f \in DOMAIN row |-> csv_field(row[f])]

\* ---------------------------------------------------------- parse_blocks
is_arin_customer(b) == b[1].attr = "OrgID"

is_arin_network(b) == b[1].attr \in {"NetHandle", "V6NetHandle"}

\* Mutation: an OrgID that is already registered keeps its first entry.
OrgsPut_keeps_first(orgs, orgid, orgname, country) ==
  [o \in DOMAIN orgs \cup {orgid} |->
     IF o \in DOMAIN orgs THEN orgs[o] ELSE [name |-> orgname, country |-> country]]

\* ARIN_ORGS[orgid] = (orgname, country)
OrgsPut(orgs, orgid, orgname, country) ==
  [o \in DOMAIN orgs \cup {orgid} |->
     IF o = orgid THEN [name |-> orgname, country |-> country] ELSE orgs[o]]

\* Mutation: the list is not fanned out; one row is written for its first item.
FanOut_first_only(items, netname, description, country, maintained_by, created, last_modified, source) ==
  IF items = <<>> THEN <<>>
  ELSE <<writerow(Row(range_to_cidr(py_str(items[1])), netname, description, country,
                      maintained_by, created, last_modified, source))>>

\* 'for cidr in inetnum: c = range_to_cidr(str(cidr)); writerow([c, ...])'
FanOut(items, netname, description, country, maintained_by, created, last_modified, source) ==
  [i \in 1..Len(items) |->
     writerow(Row(range_to_cidr(py_str(items[i])), netname, description, country,
                  maintained_by, created, last_modified, source))]

\* The tail of the loop body: 'if isinstance(inetnum, list): ... else: ...'
WriteRows(inetnum, netname, description, country, maintained_by, created, last_modified, source) ==
  IF inetnum.k = "list"
  THEN [rows |-> FanOut(inetnum.items, netname, description, country, maintained_by,
                        created, last_modified, source),
        exc |-> ""]
  ELSE IF range_to_cidr_raises(inetnum)
  THEN [rows |-> <<>>, exc |-> "TypeError"]
  ELSE [rows |-> <<writerow(Row(range_to_cidr(inetnum), netname, description, country,
                                maintained_by, created, last_modified, source))>>,
        exc |-> ""]

\* Organization block: register and 'continue'.
ParseCustomer(b, orgs) ==
  [rows |-> <<>>,
   orgs |-> OrgsPut(orgs, parse_property(b, "OrgID"), parse_property(b, "OrgName"),
                    parse_property(b, "Country")),
   log |-> <<>>, exc |-> ""]

\* Network block of ARIN's own format.
ParseNetwork(b, orgs) ==
  LET inetnum == parse_arin_inetnum(b)
      warn == IF inetnum = None THEN <<"warning">> ELSE <<>>
      orgid == parse_property(b, "OrgID")
      netname == parse_property(b, "NetName")
      d1 == parse_property(b, "NetHandle")
      description == IF d1 = None THEN parse_property(b, "V6NetHandle") ELSE d1
  IN IF orgid \notin DOMAIN orgs
     THEN [rows |-> <<>>, orgs |-> orgs, log |-> warn, exc |-> "KeyError"]
     ELSE LET w == WriteRows(inetnum, netname, description, orgs[orgid].country,
                             orgs[orgid].name, parse_property(b, "RegDate"),
                             parse_property(b, "Updated"),
                             parse_property(b, "cust_source"))
          IN [rows |-> w.rows, orgs |-> orgs, log |-> warn, exc |-> w.exc]

\* Free-text (RPSL) block, parsed by the irrd parser inside try/except.
ParseRpsl(b, orgs) ==
  IF rpsl_raises(b)
  THEN LET w == WriteRows(EmptyStr, EmptyStr, EmptyStr, EmptyStr, EmptyStr, EmptyStr,
                          EmptyStr, EmptyStr)
       IN [rows |-> w.rows, orgs |-> orgs, log |-> <<"error">>, exc |-> w.exc]
  ELSE
  LET pd == parsed_data(b)
      has(a) == a \in DOMAIN pd
      isSet == ~has("inetnum") /\ ~has("inet6num") /\ ~has("route") /\ ~has("route6")
               /\ has("route-set")
      inetnum == IF has("inetnum") THEN pd["inetnum"]
                 ELSE IF has("inet6num") THEN pd["inet6num"]
                 ELSE IF has("route") THEN pd["route"]
                 ELSE IF has("route6") THEN pd["route6"]
                 ELSE IF has("route-set") /\ has("members") THEN pd["members"]
                 ELSE EmptyStr
      netname == IF has("netname") THEN pd["netname"]
                 ELSE IF isSet THEN pd["route-set"] ELSE EmptyStr
      joined(a) == IF has(a) THEN join(pd[a].items) ELSE EmptyStr
      last_modified == IF has("changed") THEN join(pd["changed"].items)
                       ELSE joined("last-modified")
      source == IF has("source") THEN pd["source"] ELSE parse_property(b, "cust_source")
      w == WriteRows(inetnum, netname, joined("descr"), joined("country"),
                     joined("mnt-by"), joined("created"), last_modified, source)
  IN [rows |-> w.rows, orgs |-> orgs, log |-> <<>>, exc |-> w.exc]

\* One iteration of 'for block in blocks' of parse_blocks.
ParseBlock(b, orgs) ==
  IF is_arin_customer(b) THEN ParseCustomer(b, orgs)
  ELSE IF is_arin_network(b) THEN ParseNetwork(b, orgs)
  ELSE ParseRpsl(b, orgs)

\* ------------------------------------------------------------------ state
VARIABLES
  pc,            \* position: "main" | "parse" | "done" | "crashed" (pipeline),
                 \*           "reading" | "eof" (segmenter alone)
  fi,            \* index of the FILELIST entry the driver is at
  prog,          \* which program's read_blocks runs
  single_block,  \* read_blocks: lines accumulated since the last blank line
  blocks,        \* read_blocks: blocks emitted; parse_blocks: blocks still to iterate
  ARIN_ORGS,     \* OrgID -> [name, country]
  rows,          \* rows handed to csv_writer.writerow, in order
  log,           \* levels of the records logged (info/warning/error)
  exc,           \* exception that escaped main ("" if none)
  consumed,      \* history: lines read from the current stream
  orgReg,        \* history: OrgID -> [file, regs, name, country] of its latest
                 \* registration (regs: registrations of it in that file)
  budget         \* record groups the input may still contain

vars == <<pc, fi, prog, single_block, blocks, ARIN_ORGS, rows, log, exc,
          consumed, orgReg, budget>>

EmptyMap == [o \in {} |-> None]

\* ----------------------------------------------------------------- inputs
Aligned6 == Range(6, 0, 1)

Unaligned == Range(4, 1, MaxAddr - 1)

SampleMembers == <<Cidr(4, 0, AddrBits), Cidr(4, 2, AddrBits - 1), Cidr(4, 4, AddrBits - 2)>>

OrgIdLine == Line("OrgID", Txt("ORG-A"))

\* Record groups (the lines between two blank lines) the dump files are made of:
\* Organization, Network (IPv4 unaligned, IPv6, unparseable range), inetnum,
\* a block the RPSL parser rejects, route, route-set with and without members,
\* and a person object.
GroupShapes ==
  { <<OrgIdLine, Line("OrgName", Txt("Acme")), Line("Country", Txt("US"))>>,
    <<OrgIdLine, Line("OrgName", Txt("Bolt")), Line("Country", Txt("DE"))>>,
    <<Line("NetHandle", Txt("NET-1")), Line("NetRange", Unaligned), OrgIdLine,
      Line("Updated", Txt("2020"))>>,
    <<Line("V6NetHandle", Txt("NET6-1")), Line("NetRange", Aligned6), OrgIdLine>>,
    <<Line("NetHandle", Txt("NET-2")), Line("NetRange", Txt("garbage")), OrgIdLine>>,
    <<Line("inetnum", Unaligned), Line("netname", Txt("NAME")),
      Line("descr", Txt("some")), Line("descr", Txt("text")),
      Line("last-modified", Txt("2021"))>>,
    <<Line("inetnum", Unaligned), Line("?", Txt("garbage"))>>,
    <<Line("route", Cidr(4, 0, 1)), Line("source", Txt("RADB")),
      Line("last-modified", Txt("2021")), Line("changed", Txt("2019"))>>,
    <<Line("route-set", Txt("RS-X")), Line("members", List(SubSeq(SampleMembers, 1, 2))),
      Line("members", List(SubSeq(SampleMembers, 3, 3))), Line("mnt-by", Txt("MNT")),
      Line("changed", Txt("2019"))>>,
    <<Line("route-set", Txt("RS-Z"))>>,
    <<Line("person", Txt("Someone"))>> }

BlankLine == Line("", EmptyStr)

\* The lines of a file made of the groups gs, each followed by a blank line
\* (the last one only if the file ends with a blank line).
RECURSIVE FileLines(_, _)
FileLines(gs, trailing) ==
  IF gs = <<>> THEN <<>>
  ELSE IF Len(gs) = 1 THEN Head(gs) \o (IF trailing THEN <<BlankLine>> ELSE <<>>)
  ELSE Head(gs) \o <<BlankLine>> \o FileLines(Tail(gs), trailing)

\* Lines a raw stream is drawn from when the segmenter is examined alone.
StreamLines ==
  { BlankLine, Line("%", Txt("comment")), Line("remarks", Txt("note")),
    Line("inetnum", Unaligned), Line("route-set", Txt("RS-X")), Line("OrgID", Txt("ORG-A")),
    Line("person", Txt("Someone")), Line("netname", Txt("NAME")) }

\* ------------------------------------------------------ pipeline (main)
Init ==
  /\ pc = "main"
  /\ fi = 1
  /\ prog = "create_tsv"
  /\ single_block = <<>>
  /\ blocks = <<>>
  /\ ARIN_ORGS = EmptyMap
  /\ rows = <<>>
  /\ log = <<>>
  /\ exc = ""
  /\ consumed = <<>>
  /\ orgReg = EmptyMap
  /\ budget = MaxGroups

\* Mutation: the table is never reset.
ResetOrgs_never(entry, orgs) == orgs

\* 'if entry == "arin_db.txt": ARIN_ORGS = {}' at the end of a loop iteration
ResetOrgs(entry, orgs) == IF entry = "arin_db.txt" THEN EmptyMap ELSE orgs

\* The entry does not exist on disk: notice, reset check, next entry.
MainMissing ==
  /\ pc = "main" /\ fi <= NumFiles
  /\ log' = Append(log, "info")
  /\ ARIN_ORGS' = ResetOrgs(FILELIST[fi], ARIN_ORGS)
  /\ fi' = fi + 1
  /\ UNCHANGED <<pc, prog, single_block, blocks, rows, exc, consumed, orgReg, budget>>

\* The entry exists: blocks = read_blocks(f_name), then parse_blocks starts.
MainReadBlocks ==
  /\ pc = "main" /\ fi <= NumFiles
  /\ \E n \in 0..budget : \E gs \in [1..n -> GroupShapes] : \E trailing \in BOOLEAN :
       /\ blocks' = read_blocks(prog, FILELIST[fi], FileLines(gs, trailing))
       /\ budget' = budget - n
  /\ log' = log \o <<"info", "info", "info", "info">>
  /\ pc' = "parse"
  /\ UNCHANGED <<fi, prog, single_block, ARIN_ORGS, rows, exc, consumed, orgReg>>

\* One iteration of the loop of parse_blocks on the next block.
ParseBlocksStep ==
  /\ pc = "parse" /\ blocks # <<>>
  /\ LET b == Head(blocks)
         r == ParseBlock(b, ARIN_ORGS)
     IN /\ rows' = rows \o r.rows
        /\ ARIN_ORGS' = r.orgs
        /\ log' = log \o r.log
        /\ exc' = r.exc
        /\ IF r.exc # "" THEN pc' = "crashed" /\ blocks' = blocks
           ELSE pc' = pc /\ blocks' = Tail(blocks)
        /\ orgReg' = IF is_arin_customer(b)
                     THEN LET o == parse_property(b, "OrgID")
                          IN [x \in DOMAIN orgReg \cup {o} |->
                                IF x = o
                                THEN [file |-> fi,
                                      regs |-> IF o \in DOMAIN orgReg /\ orgReg[o].file = fi
                                               THEN orgReg[o].regs + 1 ELSE 1,
                                      name |-> parse_property(b, "OrgName"),
                                      country |-> parse_property(b, "Country")]
                                ELSE orgReg[x]]
                     ELSE orgReg
  /\ UNCHANGED <<fi, prog, single_block, consumed, budget>>

\* parse_blocks returned: timing notice, reset check, next entry.
MainEndFile ==
  /\ pc = "parse" /\ blocks = <<>>
  /\ log' = Append(log, "info")
  /\ ARIN_ORGS' = ResetOrgs(FILELIST[fi], ARIN_ORGS)
  /\ fi' = fi + 1
  /\ pc' = "main"
  /\ UNCHANGED <<prog, single_block, blocks, rows, exc, consumed, orgReg, budget>>

\* FILELIST exhausted: 'script finished'.
MainFinish ==
  /\ pc = "main" /\ fi > NumFiles
  /\ log' = Append(log, "info")
  /\ pc' = "done"
  /\ UNCHANGED <<fi, prog, single_block, blocks, ARIN_ORGS, rows, exc, consumed, orgReg, budget>>

Next == MainMissing \/ MainReadBlocks \/ ParseBlocksStep \/ MainEndFile \/ MainFinish

Spec == Init /\ [][Next]_vars

\* ------------------------------------------------- read_blocks on its own
InitRead ==
  /\ pc = "reading"
  /\ fi \in 1..NumFiles
  /\ prog \in {"create_tsv", "create_db"}
  /\ single_block = <<>>
  /\ blocks = <<>>
  /\ ARIN_ORGS = EmptyMap
  /\ rows = <<>>
  /\ log = <<>>
  /\ exc = ""
  /\ consumed = <<>>
  /\ orgReg = EmptyMap
  /\ budget = MaxLines

\* The file yields another line: one iteration of 'for line in f'.
ReadLine ==
  /\ pc = "reading" /\ budget > 0
  /\ \E line \in StreamLines :
       LET st == read_blocks_step(prog, get_source(FILELIST[fi]),
                                  [single_block |-> single_block, blocks |-> blocks], line)
       IN /\ single_block' = st.single_block
          /\ blocks' = st.blocks
          /\ consumed' = Append(consumed, line)
  /\ budget' = budget - 1
  /\ UNCHANGED <<pc, fi, prog, ARIN_ORGS, rows, log, exc, orgReg>>

\* End of file: the loop ends, 'Got n blocks' is logged, blocks is returned.
ReadEof ==
  /\ pc = "reading"
  /\ pc' = "eof"
  /\ log' = Append(log, "info")
  /\ UNCHANGED <<fi, prog, single_block, blocks, ARIN_ORGS, rows, exc, consumed, orgReg, budget>>

NextRead == ReadLine \/ ReadEof

SpecRead == InitRead /\ [][NextRead]_vars

\* ===================================================================
\* Properties
\* ===================================================================
\* parse_blocks is about to process the block Cur
AtBlock == pc = "parse" /\ blocks # <<>>

Cur == Head(blocks)

IsRpslBlock(b) == ~is_arin_customer(b) /\ ~is_arin_network(b)

\* The block was handled and the loop went on to the next one
Continues == pc' = "parse" /\ blocks' = Tail(blocks) /\ exc' = ""

NewRows == SubSeq(rows', Len(rows) + 1, Len(rows'))

NewLog == SubSeq(log', Len(log) + 1, Len(log'))

\* Addresses of a written cidr field (none if the field is no CIDR string)
AddrsOf(c) ==
  IF c.k = "cidr" /\ c.len \in 0..AddrBits /\ c.addr \in 0..MaxAddr
  THEN {a \in 0..MaxAddr : a >= c.addr /\ a < c.addr + Pow2(AddrBits - c.len)}
  ELSE {}

IsValidCidr(c) ==
  /\ c.k = "cidr"
  /\ c.len \in 0..AddrBits
  /\ c.addr \in 0..MaxAddr
  /\ c.addr % Pow2(AddrBits - c.len) = 0

\* The rows rs cover exactly s..e, in ascending order and without overlap
CoversExactly(rs, s, e) ==
  /\ \A i \in 1..Len(rs) : IsValidCidr(rs[i].cidr)
  /\ UNION {AddrsOf(rs[i].cidr) : i \in 1..Len(rs)} = s..e
  /\ \A i, j \in 1..Len(rs) :
       i < j => \A a \in AddrsOf(rs[i].cidr) : \A c \in AddrsOf(rs[j].cidr) : a < c

\* ---- C1 (as claimed): a Network block whose OrgID is not registered is a
\* record-level failure: it is logged, no row is written for the block, and
\* parse_blocks goes on with the next block.
C1_LookupMissIsRecordLevel ==
  [][(AtBlock /\ is_arin_network(Cur)
        /\ parse_property(Cur, "OrgID") \notin DOMAIN ARIN_ORGS)
      => (rows' = rows /\ NewLog # <<>> /\ Continues)]_vars

\* ---- C2 (as claimed): when the RPSL parser raises for a free-text block the
\* error is logged, zero rows are written for the block, and processing
\* continues with the next block.
C2_ParserFailureSkipsBlock ==
  [][(AtBlock /\ IsRpslBlock(Cur) /\ rpsl_raises(Cur))
      => (rows' = rows /\ NewLog = <<"error">> /\ Continues)]_vars

\* ---- C3 (as claimed): a Network block whose range matches no notation (and
\* whose OrgID is registered) drops only that record: a warning, no row, no
\* exception out of parse_blocks, the remaining blocks still processed.
C3_UnparseableRangeDropsRecord ==
  [][(AtBlock /\ is_arin_network(Cur) /\ parse_arin_inetnum(Cur) = None
        /\ parse_property(Cur, "OrgID") \in DOMAIN ARIN_ORGS)
      => (rows' = rows /\ NewLog = <<"warning">> /\ Continues)]_vars

\* ---- C5 (as claimed): a free-text block whose inetnum is an IPv4 range
\* 'start - end', end >= start, writes rows whose CIDRs cover exactly
\* start..end, without overlap.
C5_RpslRangeRowsCoverRange ==
  [][(AtBlock /\ IsRpslBlock(Cur) /\ ~rpsl_raises(Cur)
        /\ LinesNamed(Cur, "inetnum") # <<>>
        /\ LinesNamed(Cur, "inetnum")[1].val.k = "range"
        /\ LinesNamed(Cur, "inetnum")[1].val.v = 4
        /\ LinesNamed(Cur, "inetnum")[1].val.s <= LinesNamed(Cur, "inetnum")[1].val.e)
      => CoversExactly(NewRows, LinesNamed(Cur, "inetnum")[1].val.s,
                       LinesNamed(Cur, "inetnum")[1].val.e)]_vars

\* ---- C9 (as claimed): every row written has a non-empty, syntactically
\* valid CIDR string as its first field.
C9_EveryRowHasValidCidr == \A i \in 1..Len(rows) : IsValidCidr(rows[i].cidr)

\* ---- reference segmentation for C4 and C7, stated on the whole stream read
CommentAttrs(p) == IF p = "create_db" THEN {"%", "#", "remarks"} ELSE {"%", "#"}

StartMarkers(p) ==
  IF p = "create_tsv"
  THEN {"inetnum", "inet6num", "route", "route6", "route-set",
        "NetHandle", "V6NetHandle", "OrgID"}
  ELSE {"inetnum", "inet6num"}

Kept(p, lines) == SelectSeq(lines, LAMBDA l : l.attr \notin CommentAttrs(p))

BlankIdx(k) == {i \in 1..Len(k) : k[i].attr = ""}

Max(S) == CHOOSE x \in S : \A y \in S : y <= x

\* The lines between position i and the blank line (or stream start) before it
GroupBefore(k, i) ==
  SubSeq(k, Max({j \in BlankIdx(k) \cup {0} : j < i}) + 1, i - 1)

StartsRecord(p, g) == g # <<>> /\ g[1].attr \in StartMarkers(p)

\* The blank lines that close a group of interest, in stream order
RECURSIVE Ascending(_)
Ascending(S) ==
  IF S = {} THEN <<>>
  ELSE LET m == CHOOSE x \in S : \A y \in S : x <= y
       IN <<m>> \o Ascending(S \ {m})

ExpectedBlocks(p, src, k) ==
  LET idx == Ascending({i \in BlankIdx(k) : StartsRecord(p, GroupBefore(k, i))})
  IN [n \in 1..Len(idx) |-> Append(GroupBefore(k, idx[n]), Line("cust_source", src))]

StreamKept == Kept(prog, consumed)

Pending == GroupBefore(StreamKept, Len(StreamKept) + 1)

\* ---- C4 (as claimed): at end of stream a pending group that starts with a
\* start-of-record marker is finalized and is part of the returned blocks, as
\* if a blank line had followed it.
C4_PendingBlockEmittedAtEof ==
  (pc = "eof" /\ StartsRecord(prog, Pending))
    => blocks = ExpectedBlocks(prog, get_source(FILELIST[fi]),
                               Append(StreamKept, BlankLine))

\* ---- C7: at every point of the stream the emitted blocks are exactly the
\* groups closed by a blank line whose first line has a start-of-record marker,
\* once each, in stream order, with the cust_source line appended; groups
\* without a marker are discarded; the accumulation holds only the lines read
\* since the last blank line.
C7_BlocksAreMarkedGroups ==
  pc \in {"reading", "eof"}
    => /\ blocks = ExpectedBlocks(prog, get_source(FILELIST[fi]), StreamKept)
       /\ single_block = Pending

\* An inetnum group was emitted and a later person group was discarded
C7_Witness ==
  /\ pc = "reading" /\ prog = "create_tsv"
  /\ Len(consumed) = 4
  /\ consumed[1].attr = "inetnum" /\ consumed[2].attr = ""
  /\ consumed[3].attr = "person" /\ consumed[4].attr = ""
  /\ Len(blocks) = 1 /\ single_block = <<>>

\* ---- C6: once the driver is past arin_db.txt, ARIN_ORGS holds no entry
\* registered while arin_db.txt was processed, so no later Network block can
\* resolve to one.
ArinIdx == CHOOSE i \in 1..Len(FILELIST) : FILELIST[i] = "arin_db.txt"

C6_ResetIsolation ==
  fi > ArinIdx => \A o \in DOMAIN ARIN_ORGS : orgReg[o].file # ArinIdx

\* A later file's Network block references an OrgID that only arin_db.txt registered
C6_Witness ==
  /\ fi > ArinIdx /\ AtBlock /\ is_arin_network(Cur)
  /\ parse_property(Cur, "OrgID") \in DOMAIN orgReg
  /\ orgReg[parse_property(Cur, "OrgID")].file = ArinIdx
  /\ parse_property(Cur, "OrgID") \notin DOMAIN ARIN_ORGS

\* ---- C8: a free-text route-set block whose members attribute lists n members
\* writes exactly n rows (so never more than n), row i carrying member i as its
\* cidr and all rows the same metadata of the block.
MembersOf(b) == ItemsOf(LinesNamed(b, "members"))

C8_RouteSetFanOut ==
  [][(AtBlock /\ IsRpslBlock(Cur) /\ ~rpsl_raises(Cur) /\ Cur[1].attr = "route-set"
        /\ LinesNamed(Cur, "members") # <<>>)
      => /\ Len(NewRows) = Len(MembersOf(Cur))
         /\ \A i \in 1..Len(NewRows) :
              /\ NewRows[i].cidr = MembersOf(Cur)[i]
              /\ NewRows[i].netname = Cur[1].val
              /\ [NewRows[i] EXCEPT !.cidr = EmptyStr] = [NewRows[1] EXCEPT !.cidr = EmptyStr]
         /\ Continues]_vars

\* The three members of RS-X were written as three consecutive rows
C8_Witness ==
  \E i \in 1..Len(rows) :
    /\ i + 2 <= Len(rows)
    /\ \A j \in 0..2 : /\ rows[i + j].cidr = SampleMembers[j + 1]
                       /\ rows[i + j].netname = Txt("RS-X")

\* ---- C10: within one file an Organization block writes no row and registers
\* (name, country) under its OrgID, replacing an earlier entry; a later Network
\* block with that OrgID and a parseable NetRange writes one row per CIDR of the
\* range's covering set, in order, with the country and the name registered last.
NetRangeOf(b) == LinesNamed(b, "NetRange")[1].val

C10_OrgJoin ==
  [][/\ (AtBlock /\ is_arin_customer(Cur))
          => /\ rows' = rows
             /\ Continues
             /\ DOMAIN ARIN_ORGS' = DOMAIN ARIN_ORGS \cup {parse_property(Cur, "OrgID")}
             /\ ARIN_ORGS'[parse_property(Cur, "OrgID")] =
                  [name |-> parse_property(Cur, "OrgName"),
                   country |-> parse_property(Cur, "Country")]
             /\ \A o \in DOMAIN ARIN_ORGS :
                  o # parse_property(Cur, "OrgID") => ARIN_ORGS'[o] = ARIN_ORGS[o]
     /\ (AtBlock /\ is_arin_network(Cur)
           /\ parse_property(Cur, "OrgID") \in DOMAIN orgReg
           /\ orgReg[parse_property(Cur, "OrgID")].file = fi
           /\ LinesNamed(Cur, "NetRange") # <<>>
           /\ NetRangeOf(Cur).k = "range"
           /\ NetRangeOf(Cur).s <= NetRangeOf(Cur).e)
          => /\ CoversExactly(NewRows, NetRangeOf(Cur).s, NetRangeOf(Cur).e)
             /\ Len(NewRows) = Len(iprange_to_cidrs(NetRangeOf(Cur).v, NetRangeOf(Cur).s,
                                                    NetRangeOf(Cur).e))
             /\ \A i \in 1..Len(NewRows) :
                  /\ NewRows[i].country = csv_field(orgReg[parse_property(Cur, "OrgID")].country)
                  /\ NewRows[i].maintained_by = csv_field(orgReg[parse_property(Cur, "OrgID")].name)
             /\ Continues]_vars

\* An OrgID registered twice in arin_db.txt, then a Network block of that OrgID
\* wrote its rows with the second registration
C10_Witness ==
  /\ fi = 1 /\ pc = "parse" /\ blocks = <<>>
  /\ Txt("ORG-A") \in DOMAIN orgReg
  /\ orgReg[Txt("ORG-A")].regs = 2
  /\ orgReg[Txt("ORG-A")].name = Txt("Bolt")
  /\ Len(rows) > 1
  /\ \A i \in 1..Len(rows) : rows[i].maintained_by = Txt("Bolt") /\ rows[i].country = Txt("DE")

\* ---- C11 (as claimed): every row of a free-text block carries the block's
\* last-modified attribute as last_modified whenever that attribute is present,
\* the changed attribute only when last-modified is absent, and '' when the
\* block has neither.
AttrText(b, name) == join(ItemsOf(LinesNamed(b, name)))

C11_LastModifiedWins ==
  [][(AtBlock /\ IsRpslBlock(Cur) /\ ~rpsl_raises(Cur))
      => \A i \in 1..Len(NewRows) :
           NewRows[i].last_modified =
             IF LinesNamed(Cur, "last-modified") # <<>> THEN AttrText(Cur, "last-modified")
             ELSE IF LinesNamed(Cur, "changed") # <<>> THEN AttrText(Cur, "changed")
             ELSE EmptyStr]_vars

=============================================================================
